---- MODULE Spec2Model ----
(***************************************************************************)
(* Model of the DAb-seq demultiplexer: the barcode-correction index        *)
(* (barcode_index.cpp), the mismatch-tolerant motif locator and the        *)
(* barcode/antibody extraction built on it (dabseq_utilities.cpp), and the *)
(* synchronized paired FASTQ reader (fastq_reader.cpp).                    *)
(*                                                                         *)
(* A std::string is a sequence of one-character strings; offsets are       *)
(* 0-based as in the C++ code, sequence indices 1-based as in TLA+.        *)
(***************************************************************************)
EXTENDS Integers, Sequences, FiniteSets, TLC

VARIABLES
    \* --- BarcodeIndex under construction / query (barcode_index.cpp)
    index,        \* [canonical_barcodes, noisy_to_canonical] of the object
    idx_pc,       \* "loading" | "built" | "failed" (constructor threw)
    observed,     \* argument of the last find_canonical_barcode call
    prev_canonical, \* the caller's output string before the last call
    canonical,    \* the caller's output string (passed by reference) after it
    found,        \* return value of the last find_canonical_barcode call
    looked,       \* TRUE once find_canonical_barcode has been called
    \* --- find_with_mismatches (dabseq_utilities.cpp)
    f_seq, f_motif, f_max, f_result, f_done,
    \* --- extraction from a read pair (dabseq_utilities.cpp, main.cpp)
    cell_barcode_set,     \* BarcodeIndex of the cell whitelist
    antibody_barcode_set, \* BarcodeIndex of the antibody whitelist
    pair,                 \* FastqPair: [r1, r2], each a Record
    cell_barcode,         \* ParsedBarcode [bc1, bc2, valid]
    pay,                  \* AntibodyPayloadResult [payload, valid]
    antibody_barcode,     \* ParsedAntibody [barcode, valid]
    parsed,               \* "none" | "r1" | "r2": which extraction has run
    \* --- FastqPairReader (fastq_reader.cpp)
    file_r1, file_r2,     \* the two streams: [lines, err] (err: the read after
                          \* the last line fails instead of reporting end of file)
    pos_r1, pos_r2,       \* lines consumed from each stream so far
    status,               \* ReadStatus of the last next_record call, "NONE" before
    read_one, read_two,   \* next_record's locals in the last call ("NONE": not read)
    at_r1, at_r2,         \* pos_r1 and pos_r2 when the last call began
    \* --- the whitelist file a BarcodeIndex is constructed from
    whitelist,            \* barcode column of the CSV file, in file order
    \* --- main's processing loop (main.cpp)
    counts,               \* cell_id -> (antibody barcode -> count)
    total_pairs,
    num_with_barcodes, num_with_ab_payload, num_with_both,
    main_pc               \* "start" | "loop" | "after_loop" | "return_1"

idxVars  == <<index, idx_pc, observed, canonical, found, looked, prev_canonical>>
findVars == <<f_seq, f_motif, f_max, f_result, f_done>>
extVars  == <<cell_barcode_set, antibody_barcode_set, pair, cell_barcode, pay,
              antibody_barcode, parsed>>
rdVars   == <<file_r1, file_r2, pos_r1, pos_r2, status, read_one, read_two, at_r1, at_r2>>
bldVars  == <<whitelist>>
mainVars == <<counts, total_pairs, num_with_barcodes, num_with_ab_payload, num_with_both,
              main_pc>>
vars     == <<idxVars, findVars, extVars, rdVars, bldVars, mainVars>>
nonIdxVars  == <<findVars, extVars, rdVars, bldVars, mainVars>>
nonFindVars == <<idxVars, extVars, rdVars, bldVars, mainVars>>
nonExtVars  == <<idxVars, findVars, rdVars, bldVars, mainVars>>

(***************************************************************************)
(* Bounds of the model.                                                    *)
(***************************************************************************)
BcLen == 3          \* length of the whitelist barcodes of the index model
MaxWL == 2          \* number of distinct barcodes a whitelist holds
MaxSeqLen == 4      \* longest sequence handed to find_with_mismatches
MaxMotifLen == 2    \* longest motif handed to find_with_mismatches
MaxTol == 1         \* largest max_mismatches handed to find_with_mismatches
MaxGap == 14        \* longest filler between the two halves of a cell barcode
MaxBlocks == 2      \* number of blocks a stream holds at most
max_pairs == 3      \* main's max_pairs, scaled down to the streams of the model

(***************************************************************************)
(* Strings.                                                                *)
(***************************************************************************)
\* All strings over alphabet S of length n, and of length lo..hi.
StringsOfLen(S, n) == [1..n -> S]
StringsUpTo(S, lo, hi) == UNION {StringsOfLen(S, n) : n \in lo..hi}

\* std::string::substr(pos, count), pos <= size(): count is clipped at the end.
substr(s, pos, count) ==
    SubSeq(s, pos + 1, IF pos + count > Len(s) THEN Len(s) ELSE pos + count)

\* std::string::npos, the "not found" offset.
NPOS == -1

\* Number of positions at which two strings of equal length differ.
Hamming(a, b) == Cardinality({i \in 1..Len(a) : a[i] # b[i]})

\* a and b have the same length and differ in at most d positions.
Within(a, b, d) == Len(a) = Len(b) /\ Hamming(a, b) <= d

(***************************************************************************)
(* BarcodeIndex (barcode_index.cpp).                                       *)
(***************************************************************************)
\* static const char BASES[] = {'A','C','G','T','N'}
BASES == <<"A", "C", "G", "T", "N">>

\* The symbols whitelist barcodes are drawn from in the index model.
WlBases == {"A", "C"}

\* std::unordered_map::insert: inserts only when the key is absent.
MapInsert(m, k, v) == IF k \in DOMAIN m THEN m ELSE m @@ (k :> v)

\* A variant of InsertAll that overwrites the entries the keys already have
\* (assignment through operator[]).
InsertAllOverwrite(m, K, v) == [k \in DOMAIN m \cup K |-> IF k \in K THEN v ELSE m[k]]

\* insert({k, v}) for every key k of K, one after the other: as the value is
\* the same for all of them, the order of the inserts does not matter.
InsertAll(m, K, v) == [k \in DOMAIN m \cup K |-> IF k \in DOMAIN m THEN m[k] ELSE v]

\* The strings the two nested loops of add_hamming_neighbors build: bc with
\* position i replaced by BASES[j], for every i and every BASES[j] # bc[i].
NeighborsUpTo(bc, n) ==
    {[bc EXCEPT ![x[1]] = BASES[x[2]]] :
        x \in {y \in (1..n) \X (1..Len(BASES)) : BASES[y[2]] # bc[y[1]]}}
Neighbors(bc) == NeighborsUpTo(bc, Len(bc))

\* A variant of add_hamming_neighbors whose outer loop stops one position
\* short (i < LENGTH - 1).
add_hamming_neighbors_short(m, bc) ==
    InsertAll(MapInsert(m, bc, bc), NeighborsUpTo(bc, Len(bc) - 1), bc)

\* add_hamming_neighbors(bc, 1): the identity mapping, then the neighbours.
add_hamming_neighbors(m, bc) == InsertAll(MapInsert(m, bc, bc), Neighbors(bc), bc)

EmptyIndex == [canonical_barcodes |-> {}, noisy_to_canonical |-> <<>>]

\* A variant of LoadLine that forgets canonical_barcodes.insert.
LoadLineForgetful(ix, bc) ==
    [canonical_barcodes |-> ix.canonical_barcodes,
     noisy_to_canonical |-> add_hamming_neighbors(ix.noisy_to_canonical, bc)]

\* One iteration of the constructor's loop on a line "bc,...".
LoadLine(ix, bc) ==
    [canonical_barcodes |-> ix.canonical_barcodes \cup {bc},
     noisy_to_canonical |-> add_hamming_neighbors(ix.noisy_to_canonical, bc)]

\* The constructor on a whole whitelist (the barcode column, in file order).
RECURSIVE BuildFrom(_, _)
BuildFrom(ix, wl) == IF wl = <<>> THEN ix ELSE BuildFrom(LoadLine(ix, Head(wl)), Tail(wl))
BarcodeIndex(wl) == BuildFrom(EmptyIndex, wl)

\* A variant of find_canonical_barcode that clears the output when it fails.
find_canonical_barcode_clear(ix, obs, out) ==
    IF obs \notin DOMAIN ix.noisy_to_canonical
    THEN [ret |-> FALSE, canonical |-> <<>>]
    ELSE [ret |-> TRUE, canonical |-> ix.noisy_to_canonical[obs]]

\* find_canonical_barcode(observed, canonical): `out` is the caller's string
\* before the call; the result holds the return value and the string after.
find_canonical_barcode(ix, obs, out) ==
    IF obs \notin DOMAIN ix.noisy_to_canonical
    THEN [ret |-> FALSE, canonical |-> out]
    ELSE [ret |-> TRUE, canonical |-> ix.noisy_to_canonical[obs]]

\* size() and hamming_dict_size().
size(ix) == Cardinality(ix.canonical_barcodes)
hamming_dict_size(ix) == Cardinality(DOMAIN ix.noisy_to_canonical)

WlBarcodes == StringsOfLen(WlBases, BcLen)
\* The strings looked up: of the barcodes' length or one shorter, over the
\* whitelist's symbols and one symbol foreign to it.
ObsBases == WlBases \cup {"N"}
Observed == StringsUpTo(ObsBases, BcLen - 1, BcLen)

\* What a caller's output string may hold before a call: a fresh empty
\* string (as in parse_barcodes_from_r1) or an earlier answer.
CallerStrings == {<<>>, <<"X">>}

\* The constructor reads a line "bc,..." of the whitelist.
LoadBarcode ==
    /\ idx_pc = "loading"
    /\ \E bc \in WlBarcodes :
          /\ Cardinality(index.canonical_barcodes \cup {bc}) <= MaxWL
          /\ index' = LoadLine(index, bc)
    /\ UNCHANGED <<idx_pc, observed, canonical, found, looked, prev_canonical, nonIdxVars>>

\* The constructor reads an empty line: skipped.
LoadBlank ==
    /\ idx_pc = "loading"
    /\ UNCHANGED vars

\* The constructor reads a line without a comma: it throws.
LoadMalformed ==
    /\ idx_pc = "loading"
    /\ idx_pc' = "failed"
    /\ UNCHANGED <<index, observed, canonical, found, looked, prev_canonical, nonIdxVars>>

\* The constructor reaches the end of the file: the index is built.
FinishBuild ==
    /\ idx_pc = "loading"
    /\ idx_pc' = "built"
    /\ UNCHANGED <<index, observed, canonical, found, looked, prev_canonical, nonIdxVars>>

\* A caller looks an observed barcode up in the built index.
Lookup ==
    /\ idx_pc = "built"
    /\ ~looked
    /\ \E obs \in Observed, out \in CallerStrings :
          LET r == find_canonical_barcode(index, obs, out) IN
          /\ observed' = obs
          /\ prev_canonical' = out
          /\ canonical' = r.canonical
          /\ found' = r.ret
          /\ looked' = TRUE
    /\ UNCHANGED <<index, idx_pc, nonIdxVars>>

\* The barcode columns of the whitelist files of the construction model.
Whitelists == StringsUpTo(WlBarcodes, 0, MaxWL)

\* The constructor on a whitelist file without empty or malformed lines.
Construct ==
    /\ idx_pc = "loading"
    /\ index' = BarcodeIndex(whitelist)
    /\ idx_pc' = "built"
    /\ UNCHANGED <<observed, canonical, found, looked, prev_canonical, nonIdxVars>>

(***************************************************************************)
(* find_with_mismatches (dabseq_utilities.cpp).                            *)
(***************************************************************************)
\* A variant of the inner loop that breaks as soon as the tolerance is
\* reached instead of exceeded.
RECURSIVE MismatchLoopEager(_, _, _, _, _, _)
MismatchLoopEager(seq, motif, start, i, mismatches, max_mismatches) ==
    IF i >= Len(motif) THEN mismatches
    ELSE LET m1 == IF seq[start + i + 1] # motif[i + 1]
                   THEN mismatches + 1 ELSE mismatches
         IN  IF m1 >= max_mismatches THEN m1
             ELSE MismatchLoopEager(seq, motif, start, i + 1, m1, max_mismatches)

\* The inner loop at motif index i (0-based) with `mismatches` counted so
\* far: counts a mismatch, then breaks once the count exceeds the tolerance.
\* The value is the count the loop is left with.
RECURSIVE MismatchLoop(_, _, _, _, _, _)
MismatchLoop(seq, motif, start, i, mismatches, max_mismatches) ==
    IF i >= Len(motif) THEN mismatches
    ELSE LET m1 == IF seq[start + i + 1] # motif[i + 1]
                   THEN mismatches + 1 ELSE mismatches
         IN  IF m1 > max_mismatches THEN m1
             ELSE MismatchLoop(seq, motif, start, i + 1, m1, max_mismatches)

\* The outer loop: candidate offsets 0 .. SEQ_LENGTH - MOTIF_LENGTH are tried
\* in increasing order and the first whose count is within the tolerance is
\* returned; npos when none is.
StartLoop(seq, motif, max_mismatches) ==
    LET hits == {start \in 0..(Len(seq) - Len(motif)) :
                    MismatchLoop(seq, motif, start, 0, 0, max_mismatches) <= max_mismatches}
    IN  IF hits = {} THEN NPOS
        ELSE CHOOSE start \in hits : \A other \in hits : start <= other

find_with_mismatches(seq, motif, max_mismatches) ==
    IF motif = <<>> \/ Len(seq) < Len(motif) THEN NPOS
    ELSE StartLoop(seq, motif, max_mismatches)

\* The symbols of the locator model's inputs.
FindBases == {"A", "C", "G"}

\* A call of find_with_mismatches on the inputs.
Find ==
    /\ ~f_done
    /\ f_result' = find_with_mismatches(f_seq, f_motif, f_max)
    /\ f_done' = TRUE
    /\ UNCHANGED <<f_seq, f_motif, f_max, nonFindVars>>

(***************************************************************************)
(* Extraction of the cell barcode and of the antibody barcode              *)
(* (dabseq_utilities.h, dabseq_utilities.cpp).                             *)
(***************************************************************************)
R1_START_MOTIF == <<"G", "T", "A", "C", "T", "C", "G", "C", "A", "G", "T", "A", "G", "T", "C">>
H5_AB_HANDLE == <<"T", "G", "A", "C", "T", "A", "C", "G", "C", "T", "A", "C", "T", "C", "A", "T", "G", "G">>
H3A_AB_HANDLE == <<"G", "C", "T", "T", "T", "A", "A", "G", "G", "C", "C", "G", "G", "T", "C", "C", "T", "A", "G", "C">>
H3B_AB_HANDLE == <<"G", "A", "G", "C", "C", "G", "A", "T", "C", "T", "A", "G", "T", "A", "T", "C", "T", "C", "A", "G", "T", "C", "G">>

\* FastqPairReader::Record and FastqPair (fastq_reader.h).
Record(h, sq, pl, q) == [header |-> h, sequence |-> sq, plus |-> pl, quality |-> q]
EmptyRecord == Record(<<>>, <<>>, <<>>, <<>>)
EmptyPair == [r1 |-> EmptyRecord, r2 |-> EmptyRecord]

\* A well-formed record around a sequence.
RecordOf(h, sq) == Record(h, sq, <<"+">>, [i \in 1..Len(sq) |-> "I"])

InvalidBarcode == [bc1 |-> <<>>, bc2 |-> <<>>, valid |-> FALSE]
InvalidPayload == [payload |-> <<>>, valid |-> FALSE]
InvalidAntibody == [barcode |-> <<>>, valid |-> FALSE]

\* A variant of parse_barcodes_from_r1 that takes the second half one base
\* too far to the right.
parse_barcodes_from_r1_shifted(r1, barcodes) ==
    LET seq == r1.sequence
        motif_pos == find_with_mismatches(seq, R1_START_MOTIF, 1)
    IN  IF motif_pos = NPOS \/ motif_pos < 9 THEN InvalidBarcode
        ELSE LET m1 == find_canonical_barcode(barcodes, substr(seq, 0, 9), <<>>)
                 m2 == find_canonical_barcode(barcodes, substr(seq, motif_pos - 8, 9), <<>>)
             IN  IF ~m1.ret \/ ~m2.ret THEN InvalidBarcode
                 ELSE [bc1 |-> m1.canonical, bc2 |-> m2.canonical, valid |-> TRUE]

\* A variant of parse_barcodes_from_r1 that reports the observed halves in
\* place of the canonical barcodes the index maps them to.
parse_barcodes_from_r1_observed(r1, barcodes) ==
    LET seq == r1.sequence
        motif_pos == find_with_mismatches(seq, R1_START_MOTIF, 1)
    IN  IF motif_pos = NPOS \/ motif_pos < 9 THEN InvalidBarcode
        ELSE LET m1 == find_canonical_barcode(barcodes, substr(seq, 0, 9), <<>>)
                 m2 == find_canonical_barcode(barcodes, substr(seq, motif_pos - 9, 9), <<>>)
             IN  IF ~m1.ret \/ ~m2.ret THEN InvalidBarcode
                 ELSE [bc1 |-> substr(seq, 0, 9), bc2 |-> substr(seq, motif_pos - 9, 9),
                       valid |-> TRUE]

\* A variant of parse_barcodes_from_r1 that rejects a read whose two halves
\* are not disjoint.
parse_barcodes_from_r1_disjoint(r1, barcodes) ==
    LET seq == r1.sequence
        motif_pos == find_with_mismatches(seq, R1_START_MOTIF, 1)
    IN  IF motif_pos = NPOS \/ motif_pos < 18 THEN InvalidBarcode
        ELSE LET m1 == find_canonical_barcode(barcodes, substr(seq, 0, 9), <<>>)
                 m2 == find_canonical_barcode(barcodes, substr(seq, motif_pos - 9, 9), <<>>)
             IN  IF ~m1.ret \/ ~m2.ret THEN InvalidBarcode
                 ELSE [bc1 |-> m1.canonical, bc2 |-> m2.canonical, valid |-> TRUE]

parse_barcodes_from_r1(r1, barcodes) ==
    LET seq == r1.sequence
        motif_pos == find_with_mismatches(seq, R1_START_MOTIF, 1)
    IN  IF motif_pos = NPOS \/ motif_pos < 9 THEN InvalidBarcode
        ELSE LET barcode_first_half_observed == substr(seq, 0, 9)
                 barcode_second_half_observed == substr(seq, motif_pos - 9, 9)
                 m1 == find_canonical_barcode(barcodes, barcode_first_half_observed, <<>>)
                 m2 == find_canonical_barcode(barcodes, barcode_second_half_observed, <<>>)
             IN  IF ~m1.ret \/ ~m2.ret THEN InvalidBarcode
                 ELSE [bc1 |-> m1.canonical, bc2 |-> m2.canonical, valid |-> TRUE]

\* cell_id = bc1 + "_" + bc2 (main.cpp).
CellId(cb) == cb.bc1 \o <<"_">> \o cb.bc2

\* A variant of extract_ab_payload_from_r2 that tries the 3'-A pattern even
\* when the first pattern has produced a payload.
extract_ab_payload_from_r2_second_first(seq) ==
    LET pos5 == find_with_mismatches(seq, H5_AB_HANDLE, 1)
        pos3b == find_with_mismatches(seq, H3B_AB_HANDLE, 1)
        pos3a == find_with_mismatches(seq, H3A_AB_HANDLE, 1)
        payload_start == pos5 + Len(H5_AB_HANDLE)
    IN  IF pos3a # NPOS THEN [payload |-> substr(seq, 0, pos3a), valid |-> TRUE]
        ELSE IF pos5 # NPOS /\ pos3b # NPOS /\ pos3b > payload_start
        THEN [payload |-> substr(seq, payload_start, pos3b - payload_start), valid |-> TRUE]
        ELSE InvalidPayload

extract_ab_payload_from_r2(seq) ==
    LET pos5 == find_with_mismatches(seq, H5_AB_HANDLE, 1)
        pos3b == find_with_mismatches(seq, H3B_AB_HANDLE, 1)
        payload_start == pos5 + Len(H5_AB_HANDLE)
        payload_end == pos3b
    IN  IF pos5 # NPOS /\ pos3b # NPOS /\ payload_end > payload_start
        THEN [payload |-> substr(seq, payload_start, payload_end - payload_start),
              valid |-> TRUE]
        ELSE LET pos3a == find_with_mismatches(seq, H3A_AB_HANDLE, 1)
             IN  IF pos3a # NPOS
                 THEN [payload |-> substr(seq, 0, pos3a), valid |-> TRUE]
                 ELSE InvalidPayload

\* A variant of parse_antibody_from_r2 that reports the observed payload
\* instead of the corrected barcode.
parse_antibody_from_r2_uncorrected(r2, antibody_barcodes) ==
    LET p == extract_ab_payload_from_r2(r2.sequence)
    IN  IF ~p.valid \/ Len(p.payload) # 15 THEN InvalidAntibody
        ELSE LET m == find_canonical_barcode(antibody_barcodes, p.payload, <<>>)
             IN  IF ~m.ret THEN InvalidAntibody
                 ELSE [barcode |-> p.payload, valid |-> TRUE]

parse_antibody_from_r2(r2, antibody_barcodes) ==
    LET p == extract_ab_payload_from_r2(r2.sequence)
    IN  IF ~p.valid \/ Len(p.payload) # 15 THEN InvalidAntibody
        ELSE LET m == find_canonical_barcode(antibody_barcodes, p.payload, <<>>)
             IN  IF ~m.ret THEN InvalidAntibody
                 ELSE [barcode |-> m.canonical, valid |-> TRUE]

\* --- the mate-1 reads of the extraction model: the worked example of the
\* find_canonical_barcode comment, cut and varied.
TAGACCATG == <<"T", "A", "G", "A", "C", "C", "A", "T", "G">>
TGAACGGTT == <<"T", "G", "A", "A", "C", "G", "G", "T", "T">>
ExampleFiller == <<"A", "G", "T", "A", "C", "G", "T", "A", "C", "G", "A", "G", "T", "C">>
ExampleTail == <<"C", "G", "A", "C", "T", "G", "A", "G", "A", "T", "N", "C">>

\* s with the symbol at (1-based) position i replaced by c.
Subst(s, i, c) == [s EXCEPT ![i] = c]

\* The first k symbols of the example's filler, repeated as needed.
Fill(k) == [i \in 1..k |-> ExampleFiller[((i - 1) % Len(ExampleFiller)) + 1]]

\* What precedes the start motif when it sits at offset p: the first half,
\* filler, and the second half; cut short when p leaves no room for both.
Upstream(h1, h2, p) ==
    IF p < 9 THEN SubSeq(h1, 1, p)
    ELSE IF p < 18 THEN h1 \o SubSeq(h2, 18 - p + 1, 9)
    ELSE h1 \o Fill(p - 18) \o h2

FirstHalves == {TAGACCATG, Subst(TAGACCATG, 2, "N"), Subst(Subst(TAGACCATG, 2, "N"), 3, "N")}
SecondHalves == {TGAACGGTT, Subst(TGAACGGTT, 9, "A"), Subst(Subst(TGAACGGTT, 1, "G"), 9, "A")}
StartMotifs == {R1_START_MOTIF, Subst(R1_START_MOTIF, 4, "N"),
                Subst(Subst(R1_START_MOTIF, 4, "N"), 11, "N"), <<>>}
Downstreams == {<<>>, ExampleTail, TGAACGGTT \o R1_START_MOTIF}
CellWhitelists == {<<TAGACCATG, TGAACGGTT>>, <<TGAACGGTT>>,
                   <<TAGACCATG, Subst(TAGACCATG, 2, "C"), TGAACGGTT>>}

R1Reads == {Upstream(h1, h2, p) \o m \o d :
              h1 \in FirstHalves, h2 \in SecondHalves, p \in 0..(18 + MaxGap),
              m \in StartMotifs, d \in Downstreams}

\* --- the mate-2 reads of the extraction model: handles, payloads and junk.
CD71 == <<"C", "C", "G", "T", "G", "T", "T", "C", "C", "T", "C", "A", "T", "T", "A">>
Payloads == {CD71, Subst(CD71, 10, "N"), Subst(Subst(CD71, 10, "N"), 1, "N"),
             SubSeq(CD71, 1, 14), CD71 \o <<"A">>, <<>>}
Junk == <<"C", "G", "A", "N", "A">>
H5Alt == Subst(H5_AB_HANDLE, 8, "A")
Leads == {<<>>, H5_AB_HANDLE, Junk \o H5Alt, Subst(H5Alt, 1, "N"), H3B_AB_HANDLE \o H5_AB_HANDLE}
Trails == {<<>>, H3B_AB_HANDLE, Subst(H3B_AB_HANDLE, 13, "N"),
           Subst(Subst(H3B_AB_HANDLE, 13, "N"), 18, "N"),
           H3A_AB_HANDLE, Subst(H3A_AB_HANDLE, 1, "N"), H3B_AB_HANDLE \o H3A_AB_HANDLE,
           H3A_AB_HANDLE \o H5_AB_HANDLE \o <<"A">> \o H3B_AB_HANDLE}
AntibodyWhitelists == {<<CD71>>, <<Subst(CD71, 1, "A"), CD71>>,
                       <<CD71, Subst(Subst(CD71, 10, "G"), 11, "G")>>, <<>>}

R2Reads == {l \o pl \o tr : l \in Leads, pl \in Payloads, tr \in Trails}

\* parse_barcodes_from_r1 on the pair's mate 1.
ParseR1 ==
    /\ parsed = "none"
    /\ cell_barcode' = parse_barcodes_from_r1(pair.r1, cell_barcode_set)
    /\ parsed' = "r1"
    /\ UNCHANGED <<cell_barcode_set, antibody_barcode_set, pair, pay, antibody_barcode,
                   nonExtVars>>

\* parse_antibody_from_r2 on the pair's mate 2.
ParseR2 ==
    /\ parsed = "none"
    /\ pay' = extract_ab_payload_from_r2(pair.r2.sequence)
    /\ antibody_barcode' = parse_antibody_from_r2(pair.r2, antibody_barcode_set)
    /\ parsed' = "r2"
    /\ UNCHANGED <<cell_barcode_set, antibody_barcode_set, pair, cell_barcode,
                   nonExtVars>>

(***************************************************************************)
(* FastqPairReader (fastq_reader.h, fastq_reader.cpp).                     *)
(***************************************************************************)
\* hts_getline on a stream of which `pos` lines are consumed: the next line
\* (ret >= 0), or -1 at the end of the file, or -2 when the read fails.
hts_getline(file, pos) ==
    IF pos < Len(file.lines)
    THEN [ret |-> Len(file.lines[pos + 1]), line |-> file.lines[pos + 1], pos |-> pos + 1]
    ELSE [ret |-> IF file.err THEN -2 ELSE -1, line |-> <<>>, pos |-> pos]

ReadResult(st, rec, pos) == [status |-> st, record |-> rec, pos |-> pos]

\* A variant of read_single_record that reports the end of the file when the
\* stream ends after a header line.
read_single_record_eof(file, pos, record) ==
    LET g1 == hts_getline(file, pos) IN
    IF g1.ret = -1 THEN ReadResult("END_OF_FILE", record, g1.pos)
    ELSE IF g1.ret <= -2 THEN ReadResult("READ_ERROR", record, g1.pos)
    ELSE IF Len(g1.line) = 0 \/ g1.line[1] # "@" THEN ReadResult("READ_ERROR", record, g1.pos)
    ELSE
    LET rec1 == [record EXCEPT !.header = g1.line]
        g2 == hts_getline(file, g1.pos) IN
    IF g2.ret = -1 THEN ReadResult("END_OF_FILE", rec1, g2.pos)
    ELSE IF g2.ret < 0 THEN ReadResult("READ_ERROR", rec1, g2.pos)
    ELSE
    LET rec2 == [rec1 EXCEPT !.sequence = g2.line]
        g3 == hts_getline(file, g2.pos) IN
    IF g3.ret < 0 THEN ReadResult("READ_ERROR", rec2, g3.pos)
    ELSE IF Len(g3.line) = 0 \/ g3.line[1] # "+" THEN ReadResult("READ_ERROR", rec2, g3.pos)
    ELSE
    LET rec3 == [rec2 EXCEPT !.plus = g3.line]
        g4 == hts_getline(file, g3.pos) IN
    IF g4.ret < 0 THEN ReadResult("READ_ERROR", rec3, g4.pos)
    ELSE
    LET rec4 == [rec3 EXCEPT !.quality = g4.line] IN
    IF Len(rec4.sequence) # Len(rec4.quality) THEN ReadResult("READ_ERROR", rec4, g4.pos)
    ELSE ReadResult("OK", rec4, g4.pos)

\* A variant of read_single_record that accepts any separator line.
read_single_record_any_plus(file, pos, record) ==
    LET g1 == hts_getline(file, pos) IN
    IF g1.ret = -1 THEN ReadResult("END_OF_FILE", record, g1.pos)
    ELSE IF g1.ret <= -2 THEN ReadResult("READ_ERROR", record, g1.pos)
    ELSE IF Len(g1.line) = 0 \/ g1.line[1] # "@" THEN ReadResult("READ_ERROR", record, g1.pos)
    ELSE
    LET rec1 == [record EXCEPT !.header = g1.line]
        g2 == hts_getline(file, g1.pos) IN
    IF g2.ret < 0 THEN ReadResult("READ_ERROR", rec1, g2.pos)
    ELSE
    LET rec2 == [rec1 EXCEPT !.sequence = g2.line]
        g3 == hts_getline(file, g2.pos) IN
    IF g3.ret < 0 THEN ReadResult("READ_ERROR", rec2, g3.pos)
    ELSE
    LET rec3 == [rec2 EXCEPT !.plus = g3.line]
        g4 == hts_getline(file, g3.pos) IN
    IF g4.ret < 0 THEN ReadResult("READ_ERROR", rec3, g4.pos)
    ELSE
    LET rec4 == [rec3 EXCEPT !.quality = g4.line] IN
    IF Len(rec4.sequence) # Len(rec4.quality) THEN ReadResult("READ_ERROR", rec4, g4.pos)
    ELSE ReadResult("OK", rec4, g4.pos)

\* read_single_record: the four lines of a block, each assigned to the
\* record as soon as it is read and checked.
read_single_record(file, pos, record) ==
    LET g1 == hts_getline(file, pos) IN
    IF g1.ret = -1 THEN ReadResult("END_OF_FILE", record, g1.pos)
    ELSE IF g1.ret <= -2 THEN ReadResult("READ_ERROR", record, g1.pos)
    ELSE IF Len(g1.line) = 0 \/ g1.line[1] # "@" THEN ReadResult("READ_ERROR", record, g1.pos)
    ELSE
    LET rec1 == [record EXCEPT !.header = g1.line]
        g2 == hts_getline(file, g1.pos) IN
    IF g2.ret < 0 THEN ReadResult("READ_ERROR", rec1, g2.pos)
    ELSE
    LET rec2 == [rec1 EXCEPT !.sequence = g2.line]
        g3 == hts_getline(file, g2.pos) IN
    IF g3.ret < 0 THEN ReadResult("READ_ERROR", rec2, g3.pos)
    ELSE IF Len(g3.line) = 0 \/ g3.line[1] # "+" THEN ReadResult("READ_ERROR", rec2, g3.pos)
    ELSE
    LET rec3 == [rec2 EXCEPT !.plus = g3.line]
        g4 == hts_getline(file, g3.pos) IN
    IF g4.ret < 0 THEN ReadResult("READ_ERROR", rec3, g4.pos)
    ELSE
    LET rec4 == [rec3 EXCEPT !.quality = g4.line] IN
    IF Len(rec4.sequence) # Len(rec4.quality) THEN ReadResult("READ_ERROR", rec4, g4.pos)
    ELSE ReadResult("OK", rec4, g4.pos)

\* core_header: the header up to, not including, its first space; the whole
\* header when it has no space.
core_header(header) ==
    LET spaces == {i \in 1..Len(header) : header[i] = " "} IN
    IF spaces = {} THEN header
    ELSE LET space_pos == (CHOOSE i \in spaces : \A j \in spaces : i <= j) - 1
         IN  substr(header, 0, space_pos)

NextResult(st, pr, p1, p2, one, two) ==
    [status |-> st, pair |-> pr, pos1 |-> p1, pos2 |-> p2,
     read_one |-> one, read_two |-> two]

\* A variant of next_record that compares mate 1's core header with itself.
next_record_same_core(f1, p1, f2, p2, pr) ==
    LET one == read_single_record(f1, p1, pr.r1)
        pr1 == [pr EXCEPT !.r1 = one.record]
    IN  IF one.status = "END_OF_FILE"
        THEN NextResult("END_OF_FILE", pr1, one.pos, p2, one.status, "NONE")
        ELSE IF one.status = "READ_ERROR"
        THEN NextResult("READ_ERROR", pr1, one.pos, p2, one.status, "NONE")
        ELSE
        LET two == read_single_record(f2, p2, pr1.r2)
            pr2 == [pr1 EXCEPT !.r2 = two.record]
        IN  IF two.status # "OK"
            THEN NextResult("READ_ERROR", pr2, one.pos, two.pos, one.status, two.status)
            ELSE IF core_header(pr2.r1.header) # core_header(pr2.r1.header)
            THEN NextResult("READ_ERROR", pr2, one.pos, two.pos, one.status, two.status)
            ELSE NextResult("OK", pr2, one.pos, two.pos, one.status, two.status)

\* A variant of next_record that reads both mates before it looks at the
\* status of mate 1.
next_record_read_both(f1, p1, f2, p2, pr) ==
    LET one == read_single_record(f1, p1, pr.r1)
        two == read_single_record(f2, p2, pr.r2)
        pr2 == [r1 |-> one.record, r2 |-> two.record]
    IN  IF one.status = "END_OF_FILE"
        THEN NextResult("END_OF_FILE", pr2, one.pos, two.pos, one.status, two.status)
        ELSE IF one.status = "READ_ERROR"
        THEN NextResult("READ_ERROR", pr2, one.pos, two.pos, one.status, two.status)
        ELSE IF two.status # "OK"
        THEN NextResult("READ_ERROR", pr2, one.pos, two.pos, one.status, two.status)
        ELSE IF core_header(pr2.r1.header) # core_header(pr2.r2.header)
        THEN NextResult("READ_ERROR", pr2, one.pos, two.pos, one.status, two.status)
        ELSE NextResult("OK", pr2, one.pos, two.pos, one.status, two.status)

\* next_record: mate 1, then mate 2, then the comparison of the core headers.
next_record(f1, p1, f2, p2, pr) ==
    LET one == read_single_record(f1, p1, pr.r1)
        pr1 == [pr EXCEPT !.r1 = one.record]
    IN  IF one.status = "END_OF_FILE"
        THEN NextResult("END_OF_FILE", pr1, one.pos, p2, one.status, "NONE")
        ELSE IF one.status = "READ_ERROR"
        THEN NextResult("READ_ERROR", pr1, one.pos, p2, one.status, "NONE")
        ELSE
        LET two == read_single_record(f2, p2, pr1.r2)
            pr2 == [pr1 EXCEPT !.r2 = two.record]
        IN  IF two.status # "OK"
            THEN NextResult("READ_ERROR", pr2, one.pos, two.pos, one.status, two.status)
            ELSE IF core_header(pr2.r1.header) # core_header(pr2.r2.header)
            THEN NextResult("READ_ERROR", pr2, one.pos, two.pos, one.status, two.status)
            ELSE NextResult("OK", pr2, one.pos, two.pos, one.status, two.status)

\* --- the streams of the reader model.
\* A well-formed block around a header.
Block(h) == <<h, <<"A", "C">>, <<"+">>, <<"I", "I">>>>
HeadersR1 == {<<"@", "a", " ", "1">>, <<"@", "b">>, <<"@", "a", "\t", "1">>}
HeadersR2 == {<<"@", "a", " ", "2">>, <<"@", "b">>, <<"@", "a", "\t", "2">>, <<"@", "a">>}

\* What a stream may end with instead of a well-formed block: a header
\* without its marker, an empty line, a separator without its marker, a
\* quality line of another length, and a block cut after 1, 2 or 3 lines.
BadEndings ==
    {<< <<"a", " ", "1">>, <<"A", "C">>, <<"+">>, <<"I", "I">> >>,
     << <<>> >>,
     << <<"@", "a">>, <<"A", "C">>, <<"-">>, <<"I", "I">> >>,
     << <<"@", "a">>, <<"A", "C">>, <<"+">>, <<"I">> >>,
     << <<"@", "a">> >>,
     << <<"@", "a">>, <<"A", "C">> >>,
     << <<"@", "a">>, <<"A", "C">>, <<"+">> >>}

\* The concatenation of the blocks of a sequence of headers.
RECURSIVE Blocks(_)
Blocks(hs) == IF hs = <<>> THEN <<>> ELSE Block(Head(hs)) \o Blocks(Tail(hs))

\* Streams of at most MaxBlocks blocks: well-formed blocks, then possibly a
\* bad ending (the reader reads nothing past the first bad block).
LinesOver(H) ==
    {Blocks(hs) : hs \in StringsUpTo(H, 0, MaxBlocks)}
      \cup {Blocks(hs) \o e : hs \in StringsUpTo(H, 0, MaxBlocks - 1), e \in BadEndings}
StreamsOver(H) == {[lines |-> l, err |-> e] : l \in LinesOver(H), e \in BOOLEAN}

\* main's loop calls next_record again only after a pair was returned.
NextRecord ==
    /\ status \in {"NONE", "OK"}
    /\ LET r == next_record(file_r1, pos_r1, file_r2, pos_r2, pair) IN
          /\ pair' = r.pair
          /\ pos_r1' = r.pos1
          /\ pos_r2' = r.pos2
          /\ status' = r.status
          /\ read_one' = r.read_one
          /\ read_two' = r.read_two
    /\ at_r1' = pos_r1
    /\ at_r2' = pos_r2
    /\ UNCHANGED <<file_r1, file_r2, cell_barcode_set, antibody_barcode_set, cell_barcode,
                   pay, antibody_barcode, parsed, idxVars, findVars, bldVars, mainVars>>

(***************************************************************************)
(* main's processing loop (main.cpp).                                      *)
(***************************************************************************)
\* while (max_pairs == 0 || total_pairs < max_pairs)
loop_condition_inclusive(tp) == max_pairs = 0 \/ tp <= max_pairs
loop_condition(tp) == max_pairs = 0 \/ tp < max_pairs

\* Where the loop body leaves main after next_record has returned st: at the
\* break, at `return 1`, or in the loop.
after_status_retry(st) ==
    IF st = "END_OF_FILE" THEN "after_loop" ELSE "loop"
after_status(st) ==
    IF st = "END_OF_FILE" THEN "after_loop"
    ELSE IF st = "READ_ERROR" THEN "return_1"
    ELSE "loop"

\* counts[cell_id][ab] += 1, operator[] creating the entries that are missing.
IncrementByTwo(cts, cell_id, ab) ==
    LET inner == IF cell_id \in DOMAIN cts THEN cts[cell_id] ELSE <<>>
        n == IF ab \in DOMAIN inner THEN inner[ab] ELSE 0
        inner2 == [k \in DOMAIN inner \cup {ab} |-> IF k = ab THEN n + 2 ELSE inner[k]]
    IN  [c \in DOMAIN cts \cup {cell_id} |-> IF c = cell_id THEN inner2 ELSE cts[c]]
IncrementReset(cts, cell_id, ab) ==
    LET inner == IF cell_id \in DOMAIN cts THEN cts[cell_id] ELSE <<>>
        n == IF ab \in DOMAIN inner THEN inner[ab] ELSE 0
        inner2 == [k \in {ab} |-> n + 1]
    IN  [c \in DOMAIN cts \cup {cell_id} |-> IF c = cell_id THEN inner2 ELSE cts[c]]
Increment(cts, cell_id, ab) ==
    LET inner == IF cell_id \in DOMAIN cts THEN cts[cell_id] ELSE <<>>
        n == IF ab \in DOMAIN inner THEN inner[ab] ELSE 0
        inner2 == [k \in DOMAIN inner \cup {ab} |-> IF k = ab THEN n + 1 ELSE inner[k]]
    IN  [c \in DOMAIN cts \cup {cell_id} |-> IF c = cell_id THEN inner2 ELSE cts[c]]

\* if (cell_barcode.valid && antibody_barcode.valid) counts[cell_id][...] += 1
count_pair_either(cts, cb, ab) ==
    IF cb.valid \/ ab.valid THEN Increment(cts, CellId(cb), ab.barcode) ELSE cts
count_pair_always(cts, cb, ab) == Increment(cts, CellId(cb), ab.barcode)
count_pair(cts, cb, ab) ==
    IF cb.valid /\ ab.valid THEN Increment(cts, CellId(cb), ab.barcode) ELSE cts

\* --- the runs of the loop model: streams of read pairs.
AB2 == Subst(Subst(CD71, 10, "G"), 11, "G")
MainCellWhitelist == <<TAGACCATG, TGAACGGTT>>
MainAntibodyWhitelist == <<CD71, AB2>>

\* Three read pairs: cell TAGACCATG_TGAACGGTT with CD71; the same cell, read
\* with an N, with the other antibody; the other cell with a payload of 14
\* bases.
ReadPairs ==
    {<<TAGACCATG \o TGAACGGTT \o R1_START_MOTIF, H5_AB_HANDLE \o CD71 \o H3B_AB_HANDLE>>,
     <<Subst(TAGACCATG, 2, "N") \o ExampleFiller \o TGAACGGTT \o R1_START_MOTIF \o ExampleTail,
       Junk \o H5_AB_HANDLE \o Subst(AB2, 1, "N") \o H3B_AB_HANDLE>>,
     <<TGAACGGTT \o TAGACCATG \o R1_START_MOTIF,
       H5_AB_HANDLE \o SubSeq(CD71, 1, 14) \o H3B_AB_HANDLE>>}

\* The four lines of a well-formed block.
BlockOf(h, sq) == <<h, sq, <<"+">>, [i \in 1..Len(sq) |-> "I"]>>
HeaderR1 == <<"@", "a", " ", "1">>
HeaderR2 == <<"@", "a", " ", "2">>
RECURSIVE MateBlocks(_, _, _)
MateBlocks(ps, mate, h) ==
    IF ps = <<>> THEN <<>> ELSE BlockOf(h, Head(ps)[mate]) \o MateBlocks(Tail(ps), mate, h)

\* How a pair of streams of read pairs may end: as it should, with one
\* stream a block short, with a block cut or malformed, with the last
\* headers disagreeing, or with a failing read.
Endings == {"clean", "r1_short", "r2_short", "r1_cut", "r2_malformed", "header_mismatch",
            "io_error"}
AllButLast(sq) == SubSeq(sq, 1, Len(sq) - 1)
StreamR1(ps, e) ==
    [lines |-> IF e = "r1_short" THEN MateBlocks(AllButLast(ps), 1, HeaderR1)
               ELSE IF e = "r1_cut" THEN MateBlocks(ps, 1, HeaderR1) \o <<HeaderR1, <<"A">>>>
               ELSE IF e = "r2_malformed"
                    THEN MateBlocks(ps, 1, HeaderR1) \o BlockOf(HeaderR1, <<"A">>)
               ELSE MateBlocks(ps, 1, HeaderR1),
     err |-> e = "io_error"]
StreamR2(ps, e) ==
    [lines |-> IF e = "r2_short" THEN MateBlocks(AllButLast(ps), 2, HeaderR2)
               ELSE IF e = "r2_malformed"
                    THEN MateBlocks(ps, 2, HeaderR2) \o <<HeaderR2, <<"A">>, <<"+">>, <<>>>>
               ELSE IF e = "header_mismatch"
                    THEN MateBlocks(AllButLast(ps), 2, HeaderR2)
                           \o BlockOf(<<"@", "b", " ", "2">>, ps[Len(ps)][2])
               ELSE MateBlocks(ps, 2, HeaderR2),
     err |-> FALSE]
\* The runs: up to one pair more than max_pairs, and an ending; the endings
\* that change the last pair need one.
Runs == {x \in StringsUpTo(ReadPairs, 0, max_pairs + 1) \X Endings :
            x[2] \in {"r1_short", "r2_short", "header_mismatch"} => Len(x[1]) > 0}

\* One turn of the while loop: next_record, the two exits, and the
\* classification and counting of the pair.
MainLoopBody ==
    /\ main_pc = "loop"
    /\ loop_condition(total_pairs)
    /\ \E r \in {next_record(file_r1, pos_r1, file_r2, pos_r2, pair)} :
          /\ pair' = r.pair
          /\ pos_r1' = r.pos1
          /\ pos_r2' = r.pos2
          /\ status' = r.status
          /\ read_one' = r.read_one
          /\ read_two' = r.read_two
          /\ main_pc' = after_status(r.status)
          /\ IF after_status(r.status) # "loop"
             THEN UNCHANGED <<cell_barcode, pay, antibody_barcode, counts, total_pairs,
                              num_with_barcodes, num_with_ab_payload, num_with_both>>
             ELSE \E cb \in {parse_barcodes_from_r1(r.pair.r1, cell_barcode_set)},
                     ab \in {parse_antibody_from_r2(r.pair.r2, antibody_barcode_set)} :
                      /\ total_pairs' = total_pairs + 1
                      /\ cell_barcode' = cb
                      /\ pay' = extract_ab_payload_from_r2(r.pair.r2.sequence)
                      /\ antibody_barcode' = ab
                      /\ num_with_barcodes' = num_with_barcodes + (IF cb.valid THEN 1 ELSE 0)
                      /\ num_with_ab_payload' = num_with_ab_payload + (IF ab.valid THEN 1 ELSE 0)
                      /\ num_with_both' = num_with_both + (IF cb.valid /\ ab.valid THEN 1 ELSE 0)
                      /\ counts' = count_pair(counts, cb, ab)
    /\ at_r1' = pos_r1
    /\ at_r2' = pos_r2
    /\ UNCHANGED <<file_r1, file_r2, cell_barcode_set, antibody_barcode_set, parsed,
                   idxVars, findVars, bldVars>>

\* The while condition fails: the maximum number of pairs is processed.
MainLoopExit ==
    /\ main_pc = "loop"
    /\ ~loop_condition(total_pairs)
    /\ main_pc' = "after_loop"
    /\ UNCHANGED <<counts, total_pairs, num_with_barcodes, num_with_ab_payload,
                   num_with_both, idxVars, findVars, extVars, rdVars, bldVars>>

(***************************************************************************)
(* Specifications.                                                         *)
(***************************************************************************)
\* The state after construction of an empty BarcodeIndex object, before the
\* constructor's loop has read a line.
InitIndex ==
    /\ index = EmptyIndex
    /\ idx_pc = "loading"
    /\ observed = <<>>
    /\ canonical = <<>>
    /\ prev_canonical = <<>>
    /\ found = FALSE
    /\ looked = FALSE
    /\ f_seq = <<>> /\ f_motif = <<>> /\ f_max = 0 /\ f_result = NPOS /\ f_done = FALSE
    /\ cell_barcode_set = EmptyIndex
    /\ antibody_barcode_set = EmptyIndex
    /\ pair = EmptyPair
    /\ cell_barcode = InvalidBarcode
    /\ pay = InvalidPayload
    /\ antibody_barcode = InvalidAntibody
    /\ parsed = "none"
    /\ file_r1 = [lines |-> <<>>, err |-> FALSE]
    /\ file_r2 = [lines |-> <<>>, err |-> FALSE]
    /\ pos_r1 = 0 /\ pos_r2 = 0 /\ at_r1 = 0 /\ at_r2 = 0
    /\ status = "NONE" /\ read_one = "NONE" /\ read_two = "NONE"
    /\ whitelist = <<>>
    /\ counts = <<>>
    /\ total_pairs = 0 /\ num_with_barcodes = 0 /\ num_with_ab_payload = 0
    /\ num_with_both = 0
    /\ main_pc = "start"

NextIndex == LoadBarcode \/ LoadBlank \/ LoadMalformed \/ FinishBuild \/ Lookup
SpecIndex == InitIndex /\ [][NextIndex]_vars

\* The locator's inputs: any sequence, any motif, a tolerance (an int).
InitFind ==
    /\ f_seq \in StringsUpTo(FindBases, 0, MaxSeqLen)
    /\ f_motif \in StringsUpTo(FindBases, 0, MaxMotifLen)
    /\ f_max \in -1..MaxTol
    /\ f_result = NPOS
    /\ f_done = FALSE
    /\ index = EmptyIndex
    /\ idx_pc = "loading"
    /\ observed = <<>>
    /\ canonical = <<>>
    /\ prev_canonical = <<>>
    /\ found = FALSE
    /\ looked = FALSE
    /\ cell_barcode_set = EmptyIndex
    /\ antibody_barcode_set = EmptyIndex
    /\ pair = EmptyPair
    /\ cell_barcode = InvalidBarcode
    /\ pay = InvalidPayload
    /\ antibody_barcode = InvalidAntibody
    /\ parsed = "none"
    /\ file_r1 = [lines |-> <<>>, err |-> FALSE]
    /\ file_r2 = [lines |-> <<>>, err |-> FALSE]
    /\ pos_r1 = 0 /\ pos_r2 = 0 /\ at_r1 = 0 /\ at_r2 = 0
    /\ status = "NONE" /\ read_one = "NONE" /\ read_two = "NONE"
    /\ whitelist = <<>>
    /\ counts = <<>>
    /\ total_pairs = 0 /\ num_with_barcodes = 0 /\ num_with_ab_payload = 0
    /\ num_with_both = 0
    /\ main_pc = "start"

NextFind == Find
SpecFind == InitFind /\ [][NextFind]_vars

\* A mate-1 read and a cell index built from a whitelist.
InitR1 ==
    /\ \E wl \in CellWhitelists : cell_barcode_set = BarcodeIndex(wl)
    /\ antibody_barcode_set = EmptyIndex
    /\ \E sq \in R1Reads : pair = [r1 |-> RecordOf(<<"@">>, sq), r2 |-> EmptyRecord]
    /\ cell_barcode = InvalidBarcode
    /\ pay = InvalidPayload
    /\ antibody_barcode = InvalidAntibody
    /\ parsed = "none"
    /\ file_r1 = [lines |-> <<>>, err |-> FALSE]
    /\ file_r2 = [lines |-> <<>>, err |-> FALSE]
    /\ pos_r1 = 0 /\ pos_r2 = 0 /\ at_r1 = 0 /\ at_r2 = 0
    /\ status = "NONE" /\ read_one = "NONE" /\ read_two = "NONE"
    /\ index = EmptyIndex
    /\ idx_pc = "loading"
    /\ observed = <<>>
    /\ canonical = <<>>
    /\ prev_canonical = <<>>
    /\ found = FALSE
    /\ looked = FALSE
    /\ f_seq = <<>> /\ f_motif = <<>> /\ f_max = 0 /\ f_result = NPOS /\ f_done = FALSE
    /\ whitelist = <<>>
    /\ counts = <<>>
    /\ total_pairs = 0 /\ num_with_barcodes = 0 /\ num_with_ab_payload = 0
    /\ num_with_both = 0
    /\ main_pc = "start"

NextR1 == ParseR1
SpecR1 == InitR1 /\ [][NextR1]_vars

\* A mate-2 read and an antibody index built from a whitelist.
InitR2 ==
    /\ cell_barcode_set = EmptyIndex
    /\ \E wl \in AntibodyWhitelists : antibody_barcode_set = BarcodeIndex(wl)
    /\ \E sq \in R2Reads : pair = [r1 |-> EmptyRecord, r2 |-> RecordOf(<<"@">>, sq)]
    /\ cell_barcode = InvalidBarcode
    /\ pay = InvalidPayload
    /\ antibody_barcode = InvalidAntibody
    /\ parsed = "none"
    /\ file_r1 = [lines |-> <<>>, err |-> FALSE]
    /\ file_r2 = [lines |-> <<>>, err |-> FALSE]
    /\ pos_r1 = 0 /\ pos_r2 = 0 /\ at_r1 = 0 /\ at_r2 = 0
    /\ status = "NONE" /\ read_one = "NONE" /\ read_two = "NONE"
    /\ index = EmptyIndex
    /\ idx_pc = "loading"
    /\ observed = <<>>
    /\ canonical = <<>>
    /\ prev_canonical = <<>>
    /\ found = FALSE
    /\ looked = FALSE
    /\ f_seq = <<>> /\ f_motif = <<>> /\ f_max = 0 /\ f_result = NPOS /\ f_done = FALSE
    /\ whitelist = <<>>
    /\ counts = <<>>
    /\ total_pairs = 0 /\ num_with_barcodes = 0 /\ num_with_ab_payload = 0
    /\ num_with_both = 0
    /\ main_pc = "start"

NextR2 == ParseR2
SpecR2 == InitR2 /\ [][NextR2]_vars

\* A whitelist file, before the constructor runs on it.
InitBuild ==
    /\ whitelist \in Whitelists
    /\ index = EmptyIndex
    /\ idx_pc = "loading"
    /\ observed = <<>>
    /\ canonical = <<>>
    /\ prev_canonical = <<>>
    /\ found = FALSE
    /\ looked = FALSE
    /\ f_seq = <<>> /\ f_motif = <<>> /\ f_max = 0 /\ f_result = NPOS /\ f_done = FALSE
    /\ cell_barcode_set = EmptyIndex
    /\ antibody_barcode_set = EmptyIndex
    /\ pair = EmptyPair
    /\ cell_barcode = InvalidBarcode
    /\ pay = InvalidPayload
    /\ antibody_barcode = InvalidAntibody
    /\ parsed = "none"
    /\ file_r1 = [lines |-> <<>>, err |-> FALSE]
    /\ file_r2 = [lines |-> <<>>, err |-> FALSE]
    /\ pos_r1 = 0 /\ pos_r2 = 0 /\ at_r1 = 0 /\ at_r2 = 0
    /\ status = "NONE" /\ read_one = "NONE" /\ read_two = "NONE"
    /\ counts = <<>>
    /\ total_pairs = 0 /\ num_with_barcodes = 0 /\ num_with_ab_payload = 0
    /\ num_with_both = 0
    /\ main_pc = "start"

NextBuild == Construct \/ Lookup
SpecBuild == InitBuild /\ [][NextBuild]_vars

\* A reader on two opened streams, before the first call of next_record.
InitReader ==
    /\ file_r1 \in StreamsOver(HeadersR1)
    /\ file_r2 \in StreamsOver(HeadersR2)
    /\ pos_r1 = 0 /\ pos_r2 = 0 /\ at_r1 = 0 /\ at_r2 = 0
    /\ status = "NONE" /\ read_one = "NONE" /\ read_two = "NONE"
    /\ cell_barcode_set = EmptyIndex
    /\ antibody_barcode_set = EmptyIndex
    /\ pair = EmptyPair
    /\ cell_barcode = InvalidBarcode
    /\ pay = InvalidPayload
    /\ antibody_barcode = InvalidAntibody
    /\ parsed = "none"
    /\ index = EmptyIndex
    /\ idx_pc = "loading"
    /\ observed = <<>>
    /\ canonical = <<>>
    /\ prev_canonical = <<>>
    /\ found = FALSE
    /\ looked = FALSE
    /\ f_seq = <<>> /\ f_motif = <<>> /\ f_max = 0 /\ f_result = NPOS /\ f_done = FALSE
    /\ whitelist = <<>>
    /\ counts = <<>>
    /\ total_pairs = 0 /\ num_with_barcodes = 0 /\ num_with_ab_payload = 0
    /\ num_with_both = 0
    /\ main_pc = "start"

NextReader == NextRecord
SpecReader == InitReader /\ [][NextReader]_vars

\* main at the head of its loop: both indices built, both streams opened.
InitMain ==
    /\ cell_barcode_set = BarcodeIndex(MainCellWhitelist)
    /\ antibody_barcode_set = BarcodeIndex(MainAntibodyWhitelist)
    /\ \E x \in Runs : file_r1 = StreamR1(x[1], x[2]) /\ file_r2 = StreamR2(x[1], x[2])
    /\ pos_r1 = 0 /\ pos_r2 = 0 /\ at_r1 = 0 /\ at_r2 = 0
    /\ status = "NONE" /\ read_one = "NONE" /\ read_two = "NONE"
    /\ pair = EmptyPair
    /\ cell_barcode = InvalidBarcode
    /\ pay = InvalidPayload
    /\ antibody_barcode = InvalidAntibody
    /\ parsed = "none"
    /\ counts = <<>>
    /\ total_pairs = 0 /\ num_with_barcodes = 0 /\ num_with_ab_payload = 0
    /\ num_with_both = 0
    /\ main_pc = "loop"
    /\ whitelist = <<>>
    /\ index = EmptyIndex
    /\ idx_pc = "loading"
    /\ observed = <<>>
    /\ canonical = <<>>
    /\ prev_canonical = <<>>
    /\ found = FALSE
    /\ looked = FALSE
    /\ f_seq = <<>> /\ f_motif = <<>> /\ f_max = 0 /\ f_result = NPOS /\ f_done = FALSE

NextMain == MainLoopBody \/ MainLoopExit
SpecMain == InitMain /\ [][NextMain]_vars

\* The guard of MainLoopBody; the rest of the action assigns every primed
\* variable, so the action is enabled exactly when its guard holds.
BodyEnabled == main_pc = "loop" /\ loop_condition(total_pairs)

\* The loop is sequential code: it takes its next turn whenever it can.
\* Weak fairness of both actions, that of MainLoopBody written out with its
\* guard in the place of ENABLED.
SpecMainLive ==
    /\ InitMain /\ [][NextMain]_vars
    /\ WF_vars(MainLoopExit)
    /\ ([]<>~BodyEnabled \/ []<><<MainLoopBody>>_vars)

(***************************************************************************)
(* Properties.                                                             *)
(***************************************************************************)
\* Every pair of distinct canonical barcodes is at Hamming distance 3 or
\* more, so that no two of them share a single-substitution neighbour.
DistanceGuarantee(ix) ==
    \A a, b \in ix.canonical_barcodes : a # b => ~Within(a, b, 2)

\* observed is b with position i replaced by the symbol s # b[i].
IsVariant(obs, b, i, s) == s # b[i] /\ obs = [b EXCEPT ![i] = s]

BaseSet == {BASES[j] : j \in 1..Len(BASES)}

\* C1: in a built index, looking a canonical barcode up returns that barcode.
C1_CanonicalMapsToItself ==
    (looked /\ observed \in index.canonical_barcodes)
        => (found /\ canonical = observed)

\* Every string over the five symbols, of the barcodes' length or one shorter.
AllObserved == StringsUpTo(BaseSet, BcLen - 1, BcLen)

\* C2: when the whitelist satisfies the distance guarantee, the lookup of any
\* canonical barcode b with one position replaced by another symbol of
\* {A,C,G,T,N} returns b: for the call that was made, and for every variant
\* of every canonical barcode of the built index.
C2_VariantMapsToCanonical ==
    ((looked \/ idx_pc = "built") /\ DistanceGuarantee(index)) =>
        \A b \in index.canonical_barcodes : \A i \in 1..Len(b) : \A s \in BaseSet :
            /\ (looked /\ IsVariant(observed, b, i, s)) => (found /\ canonical = b)
            /\ (idx_pc = "built" /\ ~looked /\ s # b[i]) =>
                  find_canonical_barcode(index, [b EXCEPT ![i] = s], <<>>)
                      = [ret |-> TRUE, canonical |-> b]

C2_Witness ==
    /\ looked /\ DistanceGuarantee(index)
    /\ Cardinality(index.canonical_barcodes) = 2
    /\ \E b \in index.canonical_barcodes :
          /\ IsVariant(observed, b, Len(b), "N")
          /\ found /\ canonical = b

\* C3: a lookup of a string that is within one substitution of no canonical
\* barcode (strings of another length included) fails and leaves the
\* caller's output string as it was: for the call that was made, and for
\* every such string over the five symbols in the built index.
FarFromAll(ix, obs) == \A b \in ix.canonical_barcodes : ~Within(obs, b, 1)

C3_FarLookupFails ==
    /\ (looked /\ FarFromAll(index, observed)) => (~found /\ canonical = prev_canonical)
    /\ (idx_pc = "built" /\ ~looked) =>
          \A obs \in AllObserved : \A out \in CallerStrings :
              FarFromAll(index, obs) =>
                  find_canonical_barcode(index, obs, out) = [ret |-> FALSE, canonical |-> out]

C3_Witness ==
    /\ looked /\ index.canonical_barcodes # {}
    /\ \A b \in index.canonical_barcodes : Len(observed) # Len(b)
    /\ prev_canonical = <<"X">> /\ canonical = <<"X">> /\ ~found

\* C4: find_with_mismatches returns the lowest offset whose position-wise
\* mismatch count is within the tolerance, and "not found" exactly when the
\* motif is empty, longer than the sequence, or no offset qualifies; the
\* inner loop's early break does not change the result.
MismatchesAt(seq, motif, o) ==
    Cardinality({i \in 1..Len(motif) : seq[o + i] # motif[i]})
Qualifying(seq, motif, tol) ==
    {o \in 0..(Len(seq) - Len(motif)) : MismatchesAt(seq, motif, o) <= tol}
Lowest(S) == CHOOSE o \in S : \A p \in S : o <= p

C4_LeftmostQualifying ==
    f_done =>
        LET Q == Qualifying(f_seq, f_motif, f_max) IN
        /\ (f_result = NPOS) <=> (f_motif = <<>> \/ Len(f_motif) > Len(f_seq) \/ Q = {})
        /\ (f_result # NPOS) => f_result = Lowest(Q)

C4_Witness ==
    /\ f_done /\ f_result # NPOS
    /\ MismatchesAt(f_seq, f_motif, f_result) = 1
    /\ \E o \in Qualifying(f_seq, f_motif, f_max) :
          o > f_result /\ MismatchesAt(f_seq, f_motif, o) = 0

\* The lowest offset at which the motif matches within the tolerance, by
\* full position-wise counts; NPOS when there is none.
LeftmostWithin(seq, motif, tol) ==
    IF Qualifying(seq, motif, tol) = {} THEN NPOS ELSE Lowest(Qualifying(seq, motif, tol))

\* C5: the cell barcode of a mate-1 read is valid exactly when the start
\* motif's leftmost match within one mismatch is at an offset p >= 9 and both
\* the first 9 bases and the 9 bases before p are keys of the cell index; then
\* bc1 and bc2 are what the index maps them to and the cell identifier is
\* bc1 "_" bc2. With the whitelist TAGACCATG, TGAACGGTT the observed halves
\* TNGACCATG and TGAACGGTT give TAGACCATG_TGAACGGTT.
C5_CellExtraction ==
    parsed = "r1" =>
        LET seq == pair.r1.sequence
            p == LeftmostWithin(seq, R1_START_MOTIF, 1)
            m == cell_barcode_set.noisy_to_canonical
            o1 == SubSeq(seq, 1, 9)
            o2 == SubSeq(seq, p - 8, p)
            ok == p # NPOS /\ p >= 9 /\ o1 \in DOMAIN m /\ o2 \in DOMAIN m
        IN  /\ cell_barcode.valid <=> ok
            /\ ok => /\ cell_barcode.bc1 = m[o1]
                     /\ cell_barcode.bc2 = m[o2]
                     /\ CellId(cell_barcode) = m[o1] \o <<"_">> \o m[o2]
            /\ (/\ ok
                /\ cell_barcode_set = BarcodeIndex(<<TAGACCATG, TGAACGGTT>>)
                /\ o1 = Subst(TAGACCATG, 2, "N") /\ o2 = TGAACGGTT)
                   => CellId(cell_barcode) = TAGACCATG \o <<"_">> \o TGAACGGTT

C5_Witness ==
    /\ parsed = "r1" /\ cell_barcode.valid
    /\ LeftmostWithin(pair.r1.sequence, R1_START_MOTIF, 1) = 32
    /\ SubSeq(pair.r1.sequence, 1, 9) = Subst(TAGACCATG, 2, "N")
    /\ SubSeq(pair.r1.sequence, 24, 32) = TGAACGGTT
    /\ CellId(cell_barcode) = TAGACCATG \o <<"_">> \o TGAACGGTT

\* C6: the payload of a mate-2 read is the substring between the end of the
\* 5' handle and the start of the 3'-B handle when both are found (within one
\* mismatch, leftmost) and the 3'-B handle starts strictly after the end of
\* the 5' handle; only otherwise, when the 3'-A handle is found, it is what
\* precedes the 3'-A handle; otherwise there is no payload.
C6_PayloadSelection ==
    parsed = "r2" =>
        LET seq == pair.r2.sequence
            p5 == LeftmostWithin(seq, H5_AB_HANDLE, 1)
            p3b == LeftmostWithin(seq, H3B_AB_HANDLE, 1)
            p3a == LeftmostWithin(seq, H3A_AB_HANDLE, 1)
            after5 == p5 + Len(H5_AB_HANDLE)
            pattern1 == p5 # NPOS /\ p3b # NPOS /\ p3b > after5
        IN  /\ pattern1 => pay = [payload |-> SubSeq(seq, after5 + 1, p3b), valid |-> TRUE]
            /\ (~pattern1 /\ p3a # NPOS) =>
                   pay = [payload |-> SubSeq(seq, 1, p3a), valid |-> TRUE]
            /\ (~pattern1 /\ p3a = NPOS) => ~pay.valid

C6_Witness ==
    /\ parsed = "r2" /\ pay.valid
    /\ LET seq == pair.r2.sequence
           p5 == LeftmostWithin(seq, H5_AB_HANDLE, 1)
           p3b == LeftmostWithin(seq, H3B_AB_HANDLE, 1)
           p3a == LeftmostWithin(seq, H3A_AB_HANDLE, 1)
       IN  /\ p5 # NPOS /\ p3b # NPOS /\ p3a # NPOS
           /\ p3b > p5 + Len(H5_AB_HANDLE)
           /\ pay.payload = SubSeq(seq, p5 + Len(H5_AB_HANDLE) + 1, p3b)
           /\ pay.payload # SubSeq(seq, 1, p3a)

\* w is the one canonical barcode of the index within one substitution of P.
OnlyMatch(ix, P, w) ==
    /\ w \in ix.canonical_barcodes
    /\ \A v \in ix.canonical_barcodes : Within(P, v, 1) <=> v = w

NumBlocks(file) == (Len(file.lines) + 3) \div 4
\* The run of calls is over: main's loop leaves after either status.
Ended == status \in {"END_OF_FILE", "READ_ERROR"}

\* C8: when one stream holds fewer blocks than the other, the run of calls
\* ends with READ_ERROR and never with END_OF_FILE.
C8_UnequalLengthsAreErrors ==
    (Ended /\ NumBlocks(file_r1) # NumBlocks(file_r2)) => status = "READ_ERROR"

\* The prefix of a header before its first whitespace character.
WhiteSpace == {" ", "\t"}
WsCore(header) ==
    LET ws == {i \in 1..Len(header) : header[i] \in WhiteSpace} IN
    IF ws = {} THEN header
    ELSE SubSeq(header, 1, (CHOOSE i \in ws : \A j \in ws : i <= j) - 1)

\* What is left of mate 1's stream when the last call began.
LeftR1 == Len(file_r1.lines) - at_r1

\* C9: a call that finds mate 1 exhausted at a block boundary (no line left,
\* the end of the file reported) returns END_OF_FILE, in particular when
\* mate 2 is exhausted as well after as many blocks; a call that finds
\* mate 1 ending inside a block returns READ_ERROR.
C9_EndOfFileAtBlockBoundary ==
    status # "NONE" =>
        /\ (LeftR1 = 0 /\ ~file_r1.err) => status = "END_OF_FILE"
        /\ (LeftR1 = 0 /\ ~file_r1.err /\ at_r2 = Len(file_r2.lines) /\ at_r1 = at_r2)
              => status = "END_OF_FILE"
        /\ (LeftR1 \in 1..3) => status = "READ_ERROR"
        /\ status = "END_OF_FILE" => (LeftR1 = 0 /\ ~file_r1.err)

\* Both streams are exhausted after one block or more each, and as many.
C9_Witness ==
    /\ status = "END_OF_FILE"
    /\ at_r1 >= 4 /\ LeftR1 = 0
    /\ at_r2 = at_r1 /\ at_r2 = Len(file_r2.lines)

\* A stream of mate 1 that ends inside a block.
C9_WitnessInside == status = "READ_ERROR" /\ LeftR1 \in 1..3 /\ at_r1 >= 4

\* C10: a call returns OK only if the two headers have the same prefix before
\* their first whitespace; a pair of blocks that are both read but whose
\* prefixes differ makes the call return READ_ERROR.
C10_ReadyOnlyIfCoresEqual ==
    /\ status = "OK" => WsCore(pair.r1.header) = WsCore(pair.r2.header)
    /\ (read_one = "OK" /\ read_two = "OK"
          /\ WsCore(pair.r1.header) # WsCore(pair.r2.header)) => status = "READ_ERROR"

\* A pair is returned whose headers differ after the first space.
C10_Witness ==
    /\ status = "OK"
    /\ pair.r1.header # pair.r2.header
    /\ WsCore(pair.r1.header) = WsCore(pair.r2.header)
    /\ \E i \in 1..Len(pair.r1.header) : pair.r1.header[i] = " "

\* Two blocks are read whose prefixes differ.
C10_WitnessMismatch ==
    /\ status = "READ_ERROR" /\ read_one = "OK" /\ read_two = "OK"
    /\ WsCore(pair.r1.header) # WsCore(pair.r2.header)

\* --- BarcodeIndex on whitelists that break the distance guarantee.
\* The positions of the whitelist's entries within one substitution of s.
Sharers(s) == {i \in 1..Len(whitelist) : Within(whitelist[i], s, 1)}
\* The neighbour looked up is shared by two different canonical barcodes.
SharedNeighbour ==
    /\ idx_pc = "built" /\ looked
    /\ \E i, j \in Sharers(observed) : whitelist[i] # whitelist[j]
LeastOf(S) == CHOOSE i \in S : \A j \in S : i <= j
GreatestOf(S) == CHOOSE i \in S : \A j \in S : i >= j

C18_MapEntriesAreNearCanonical ==
    /\ \A k \in DOMAIN index.noisy_to_canonical :
          LET v == index.noisy_to_canonical[k] IN
          /\ v \in index.canonical_barcodes
          /\ Len(k) = Len(v)
          /\ Hamming(k, v) <= 1
    /\ (looked /\ found) =>
          /\ canonical \in index.canonical_barcodes
          /\ Within(observed, canonical, 1)
    /\ size(index) <= hamming_dict_size(index)

\* A successful lookup in an index whose whitelist holds two barcodes one
\* substitution apart.
C18_Witness ==
    /\ looked /\ found /\ observed # canonical
    /\ \E a, b \in index.canonical_barcodes : a # b /\ Within(a, b, 1)

\* --- the Sequence Record invariant.
RecordInvariant(rec) ==
    /\ Len(rec.header) > 0 /\ rec.header[1] = "@"
    /\ Len(rec.plus) > 0 /\ rec.plus[1] = "+"
    /\ Len(rec.sequence) = Len(rec.quality)

\* The lines of the block that begins after `pos` lines of a stream.
BlockAt(file, pos) ==
    SubSeq(file.lines, pos + 1, IF pos + 4 <= Len(file.lines) THEN pos + 4 ELSE Len(file.lines))
\* A block that is truncated or breaks a structural rule.
Truncated(b) == Len(b) \in 1..3
Malformed(b) ==
    /\ Len(b) = 4
    /\ \/ Len(b[1]) = 0 \/ b[1][1] # "@"
       \/ Len(b[3]) = 0 \/ b[3][1] # "+"
       \/ Len(b[2]) # Len(b[4])
BadBlock(b) == Truncated(b) \/ Malformed(b)

C11_WitnessReady == status = "OK" /\ at_r1 = 4

\* --- main's processing loop.
Stopped == main_pc \in {"after_loop", "return_1"}
Classification == <<cell_barcode, pay, antibody_barcode>>
Counters == <<total_pairs, num_with_barcodes, num_with_ab_payload, num_with_both>>

\* C12: the step in which next_record returns READ_ERROR takes main to
\* `return 1` without classifying or counting the pair, and no step follows
\* it: next_record is not called again.
C12_ReadErrorIsTerminal ==
    [][/\ status # "READ_ERROR"
       /\ status' = "READ_ERROR" =>
             /\ main_pc' = "return_1"
             /\ counts' = counts
             /\ Counters' = Counters
             /\ Classification' = Classification]_vars

\* A run that has counted a pair ends with READ_ERROR.
C12_Witness ==
    /\ status = "READ_ERROR" /\ main_pc = "return_1"
    /\ total_pairs >= 1 /\ counts # <<>>

\* The sum of the values of a function with a finite domain.
RECURSIVE SumValues(_)
SumValues(f) ==
    IF DOMAIN f = {} THEN 0
    ELSE LET k == CHOOSE x \in DOMAIN f : TRUE
         IN  f[k] + SumValues([x \in DOMAIN f \ {k} |-> f[x]])
SumCounts(cts) == SumValues([c \in DOMAIN cts |-> SumValues(cts[c])])

\* The k-th block of a stream, as a record.
RecordAt(file, k) ==
    Record(file.lines[4 * k - 3], file.lines[4 * k - 2], file.lines[4 * k - 1],
           file.lines[4 * k])
\* Both extractions are valid on the k-th blocks of the two streams.
BothValid(k) ==
    /\ parse_barcodes_from_r1(RecordAt(file_r1, k), cell_barcode_set).valid
    /\ parse_antibody_from_r2(RecordAt(file_r2, k), antibody_barcode_set).valid

\* C13: after any number of processed pairs the counts of the table add up
\* to the number of those pairs on which both extractions were valid.
C13_CountsSumToValidPairs ==
    /\ SumCounts(counts) = Cardinality({k \in 1..total_pairs : BothValid(k)})
    /\ SumCounts(counts) = num_with_both

\* Several pairs are processed, some counted and some not.
C13_Witness ==
    /\ total_pairs >= 2
    /\ SumCounts(counts) >= 1
    /\ SumCounts(counts) < total_pairs

C16_CountsOnlyGrowByOne ==
    [][/\ \A c \in DOMAIN counts :
             /\ c \in DOMAIN counts'
             /\ \A a \in DOMAIN counts[c] :
                   /\ a \in DOMAIN counts'[c]
                   /\ counts'[c][a] \in {counts[c][a], counts[c][a] + 1}
       /\ SumCounts(counts') \in {SumCounts(counts), SumCounts(counts) + 1}
       /\ SumCounts(counts') = SumCounts(counts) + 1 => total_pairs' = total_pairs + 1]_vars

\* An entry has been incremented twice, next to another entry.
C16_Witness ==
    \E c \in DOMAIN counts : \E a, b \in DOMAIN counts[c] :
        a # b /\ counts[c][a] = 2

\* C17: the loop terminates; it is left only after END_OF_FILE, after
\* READ_ERROR, or with max_pairs pairs processed; total_pairs never exceeds
\* max_pairs, and next_record is not called once max_pairs is reached.
C17_LoopTerminates ==
    /\ <>Stopped
    /\ [](/\ total_pairs <= max_pairs
          /\ main_pc = "after_loop" => (status = "END_OF_FILE" \/ total_pairs = max_pairs)
          /\ main_pc = "return_1" => status = "READ_ERROR")
    /\ [][total_pairs >= max_pairs => UNCHANGED rdVars]_vars

\* The loop is left with max_pairs pairs processed and blocks left unread.
C17_Witness ==
    /\ main_pc = "after_loop" /\ status = "OK"
    /\ total_pairs = max_pairs
    /\ pos_r1 < Len(file_r1.lines) /\ pos_r2 < Len(file_r2.lines)

\* C19: after a call that returns OK as many blocks are consumed from each
\* stream as pairs were returned, and the pair holds the blocks of that
\* number; a call that ends on mate 1 consumes nothing from mate 2.
C19_Lockstep ==
    /\ status = "OK" =>
          /\ pos_r1 = 4 * total_pairs /\ pos_r2 = 4 * total_pairs
          /\ pair.r1 = RecordAt(file_r1, total_pairs)
          /\ pair.r2 = RecordAt(file_r2, total_pairs)
    /\ read_one \in {"END_OF_FILE", "READ_ERROR"} =>
          /\ read_two = "NONE"
          /\ pos_r2 = at_r2 /\ pos_r2 = 4 * total_pairs

\* The second pair is returned: the second block of each stream.
C19_Witness ==
    /\ status = "OK" /\ total_pairs = 2
    /\ pair.r1.sequence # file_r1.lines[2]

\* A call ends on mate 1 while mate 2 has a block left.
C19_WitnessMateOneEnds ==
    /\ read_one = "END_OF_FILE" /\ total_pairs >= 1
    /\ pos_r2 < Len(file_r2.lines)

\* --- independence of the order of the pairs.
NumPairs == Len(file_r1.lines) \div 4
\* Both streams hold the same number of well-formed blocks with matching
\* headers and end with the end of the file.
WellFormedPairs ==
    /\ ~file_r1.err /\ ~file_r2.err
    /\ Len(file_r1.lines) = 4 * NumPairs /\ Len(file_r2.lines) = 4 * NumPairs
    /\ \A k \in 1..NumPairs :
          /\ RecordInvariant(RecordAt(file_r1, k))
          /\ RecordInvariant(RecordAt(file_r2, k))
          /\ WsCore(RecordAt(file_r1, k).header) = WsCore(RecordAt(file_r2, k).header)
Orders(n) == {f \in [1..n -> 1..n] : \A i, j \in 1..n : i # j => f[i] # f[j]}
RECURSIVE BlocksFrom(_, _, _)
BlocksFrom(file, f, k) ==
    IF k > Len(f) THEN <<>>
    ELSE BlockAt(file, 4 * (f[k] - 1)) \o BlocksFrom(file, f, k + 1)
\* The stream with its blocks in the order f.
Reordered(file, f) == [lines |-> BlocksFrom(file, f, 1), err |-> file.err]

\* The table at the end of main's loop run on streams f1 and f2.
RECURSIVE RunFrom(_, _, _, _, _, _, _)
RunFrom(f1, p1, f2, p2, pr, cts, tp) ==
    IF ~loop_condition(tp) THEN cts
    ELSE LET r == next_record(f1, p1, f2, p2, pr) IN
         IF after_status(r.status) # "loop" THEN cts
         ELSE RunFrom(f1, r.pos1, f2, r.pos2, r.pair,
                      count_pair(cts, parse_barcodes_from_r1(r.pair.r1, cell_barcode_set),
                                 parse_antibody_from_r2(r.pair.r2, antibody_barcode_set)),
                      tp + 1)
FinalCounts(f1, f2) == RunFrom(f1, 0, f2, 0, EmptyPair, <<>>, 0)

\* C20: the classification of the pair last read is that of its two
\* sequences under the indices as built; and for well-formed streams of
\* fewer than max_pairs pairs, the table at the end of the loop is the table
\* of the run on the same pairs in any other order.
C20_OrderIndependence ==
    /\ cell_barcode_set = BarcodeIndex(MainCellWhitelist)
    /\ antibody_barcode_set = BarcodeIndex(MainAntibodyWhitelist)
    /\ status = "OK" =>
          /\ cell_barcode = parse_barcodes_from_r1(
                               RecordOf(<<"@">>, file_r1.lines[4 * total_pairs - 2]),
                               BarcodeIndex(MainCellWhitelist))
          /\ antibody_barcode = parse_antibody_from_r2(
                                   RecordOf(<<"@">>, file_r2.lines[4 * total_pairs - 2]),
                                   BarcodeIndex(MainAntibodyWhitelist))
    /\ (main_pc = "after_loop" /\ WellFormedPairs /\ (max_pairs = 0 \/ NumPairs < max_pairs)) =>
          \A f \in Orders(NumPairs) :
              FinalCounts(Reordered(file_r1, f), Reordered(file_r2, f)) = counts

\* Two different pairs of the same cell, both counted, at the end of a run
\* of fewer than max_pairs pairs.
C20_Witness ==
    /\ main_pc = "after_loop" /\ status = "END_OF_FILE" /\ WellFormedPairs
    /\ NumPairs = 2 /\ NumPairs < max_pairs
    /\ file_r1.lines[2] # file_r1.lines[6]
    /\ \E c \in DOMAIN counts : Cardinality(DOMAIN counts[c]) = 2

\* The cell identifiers h1 "_" h2 over the canonical barcodes of an index.
CellIdsOver(ix) ==
    {h1 \o <<"_">> \o h2 : h1 \in ix.canonical_barcodes, h2 \in ix.canonical_barcodes}
\* The number of (cell identifier, antibody barcode) entries of a table.
NumEntries(cts) == SumValues([c \in DOMAIN cts |-> Cardinality(DOMAIN cts[c])])

\* C21: in every state of a run every cell identifier of the count table is
\* h1 "_" h2 for canonical barcodes h1, h2 of the cell whitelist and every
\* antibody key is a canonical barcode of the antibody whitelist; so the
\* table never has more than |cell whitelist|^2 * |antibody whitelist|
\* entries.
C21_KeysAreCanonical ==
    /\ \A c \in DOMAIN counts :
          /\ c \in CellIdsOver(cell_barcode_set)
          /\ DOMAIN counts[c] \subseteq antibody_barcode_set.canonical_barcodes
    /\ NumEntries(counts) <=
          size(cell_barcode_set) * size(cell_barcode_set) * size(antibody_barcode_set)

\* A pair whose observed first half and observed payload both differ from
\* every canonical barcode has just been counted, under corrected keys.
C21_Witness ==
    /\ status = "OK" /\ cell_barcode.valid /\ antibody_barcode.valid
    /\ substr(pair.r1.sequence, 0, 9) \notin cell_barcode_set.canonical_barcodes
    /\ pay.valid /\ pay.payload \notin antibody_barcode_set.canonical_barcodes
    /\ CellId(cell_barcode) \in DOMAIN counts
    /\ antibody_barcode.barcode \in DOMAIN counts[CellId(cell_barcode)]
    /\ NumEntries(counts) = 2

\* C22: the two observed halves need not be disjoint. When the start
\* motif's leftmost match is at an offset p with 9 <= p < 18 the halves
\* seq[0..9) and seq[p-9..p) share 18 - p bases and the read is valid exactly
\* when both are keys of the cell index, as for any other p >= 9; at p = 9
\* they are the same 9 bases and a valid result has bc1 = bc2.
C22_HalvesMayOverlap ==
    parsed = "r1" =>
        LET seq == pair.r1.sequence
            p == LeftmostWithin(seq, R1_START_MOTIF, 1)
            m == cell_barcode_set.noisy_to_canonical
            o1 == substr(seq, 0, 9)
            o2 == substr(seq, p - 9, 9)
        IN  (p # NPOS /\ 9 <= p /\ p < 18) =>
                /\ \A i \in 0..(17 - p) : o1[p - 9 + i + 1] = o2[i + 1]
                /\ cell_barcode.valid <=> (o1 \in DOMAIN m /\ o2 \in DOMAIN m)
                /\ p = 9 => /\ o1 = o2
                            /\ cell_barcode.valid <=> o1 \in DOMAIN m
                            /\ cell_barcode.valid => cell_barcode.bc1 = cell_barcode.bc2

\* A read with the start motif right after its first 9 bases has been
\* accepted, with the same barcode for both halves.
C22_Witness ==
    /\ parsed = "r1" /\ cell_barcode.valid
    /\ LeftmostWithin(pair.r1.sequence, R1_START_MOTIF, 1) = 9
    /\ cell_barcode.bc1 = cell_barcode.bc2
    /\ CellId(cell_barcode) = cell_barcode.bc1 \o <<"_">> \o cell_barcode.bc1

\* A read with the start motif between offsets 10 and 17 has been accepted:
\* its two observed halves share bases.
C22_WitnessPartialOverlap ==
    /\ parsed = "r1" /\ cell_barcode.valid
    /\ LeftmostWithin(pair.r1.sequence, R1_START_MOTIF, 1) \in 10..17

====
